---- MODULE Spec2Model ----
(***************************************************************************)
(* Model of books-scrapper (src/scraper.py): the detail-page extractor     *)
(* get_book_data and the catalog walker scrape_books.                      *)
(*                                                                         *)
(* Conventions.  A Python str is a sequence of one-character strings.  A   *)
(* value that may be None is a sequence of length <= 1: None is << >> and  *)
(* a present value v is << v >>.  A parsed HTML document is the sequence   *)
(* of its selector-relevant elements in document order.                    *)
(***************************************************************************)
EXTENDS Integers, Sequences, FiniteSets, TLC

VARIABLES
    \* ---- scrape_books (the crawl) ----
    site,             \* the web site: catalog pages and detail pages
    pages_to_scrape,  \* argument, None or an integer
    is_save,          \* argument
    pc,               \* position in scrape_books
    page_num,         \* local page_num
    book_cards,       \* local book_cards of the current catalog page
    card,             \* index of the next anchor of book_cards
    all_books,        \* local all_books
    file,             \* artifacts/books_data.txt: None or the lines written
    returned,         \* None, or the list scrape_books returned
    catalog_gets,     \* page numbers requested by session.get, in order
    detail_gets,      \* detail URLs requested by get_book_data, in order
    exit_by,          \* which break left the while loop
    \* ---- one call of get_book_data ----
    response,         \* the response the call will get
    book_url,         \* argument
    outcome,          \* "idle", "returned" or "raised"
    data,             \* None or the dict returned
    \* ---- one href normalisation (scrape_books lines 160-166) ----
    href,             \* the anchor's href
    detail_url        \* None, "skipped", or the URL built

vars == <<site, pages_to_scrape, is_save, pc, page_num, book_cards, card,
          all_books, file, returned, catalog_gets, detail_gets, exit_by,
          response, book_url, outcome, data, href, detail_url>>

crawl_vars == <<site, pages_to_scrape, is_save, pc, page_num, book_cards, card,
                all_books, file, returned, catalog_gets, detail_gets, exit_by>>

call_vars == <<response, book_url, outcome, data>>

href_vars == <<href, detail_url>>

----------------------------------------------------------------------------
(* Bounds of the model. *)

MaxTextLen == 5

MaxTokens == 3

MaxHrefLen == 7

MaxPage == 2

----------------------------------------------------------------------------
(* Python values. *)

None == << >>

Some(v) == << v >>

IsNone(o) == Len(o) = 0

SeqsUpTo(S, n) == UNION { [1..k -> S] : k \in 0..n }

Min(S) == CHOOSE x \in S : \A y \in S : x <= y

----------------------------------------------------------------------------
(* str operations used by the extractor. *)

Digits == {"0", "1", "2", "3", "4", "5", "6", "7", "8", "9"}

Spaces == {" ", "\n", "\t"}

IsDigit(c) == c \in Digits

IsSpace(c) == c \in Spaces

DigitVal(c) ==
    CASE c = "0" -> 0 [] c = "1" -> 1 [] c = "2" -> 2 [] c = "3" -> 3
      [] c = "4" -> 4 [] c = "5" -> 5 [] c = "6" -> 6 [] c = "7" -> 7
      [] c = "8" -> 8 [] c = "9" -> 9

\* int(s) for a string of digits
RECURSIVE ToInt(_)
ToInt(s) ==
    IF s = << >> THEN 0
    ELSE 10 * ToInt(SubSeq(s, 1, Len(s) - 1)) + DigitVal(s[Len(s)])

\* str.strip()
RECURSIVE LStrip(_)
LStrip(s) ==
    IF s # << >> /\ IsSpace(s[1]) THEN LStrip(Tail(s)) ELSE s

RECURSIVE RStrip(_)
RStrip(s) ==
    IF s # << >> /\ IsSpace(s[Len(s)]) THEN RStrip(SubSeq(s, 1, Len(s) - 1)) ELSE s

Strip(s) == RStrip(LStrip(s))

\* " ".join(s.split()): the whitespace-separated words joined by one space
RECURSIVE FirstWord(_)
FirstWord(s) ==
    IF s = << >> \/ IsSpace(s[1]) THEN << >> ELSE <<s[1]>> \o FirstWord(Tail(s))

RECURSIVE JoinSplit(_)
JoinSplit(s) ==
    LET t == LStrip(s)
        w == FirstWord(t)
        rest == LStrip(SubSeq(t, Len(w) + 1, Len(t)))
    IN  IF t = << >> THEN << >>
        ELSE IF rest = << >> THEN w
        ELSE w \o <<" ">> \o JoinSplit(rest)

\* the end of the run of digits that starts at position i of s
RECURSIVE DigitRunEnd(_, _)
DigitRunEnd(s, i) ==
    IF i + 1 <= Len(s) /\ IsDigit(s[i + 1]) THEN DigitRunEnd(s, i + 1) ELSE i

\* the first position at or after i of s that holds no whitespace
RECURSIVE SkipSpaces(_, _)
SkipSpaces(s, i) ==
    IF i <= Len(s) /\ IsSpace(s[i]) THEN SkipSpaces(s, i + 1) ELSE i

\* float(s) for s matching \d+(?:\.\d+)?, as an exact decimal: the integer
\* part and the fraction digits without trailing zeros (1.50 = 1.5 = 01.5).
\* The rounding of a double is not modelled.
RECURSIVE DropTrailingZeros(_)
DropTrailingZeros(s) ==
    IF s # << >> /\ s[Len(s)] = "0" THEN DropTrailingZeros(SubSeq(s, 1, Len(s) - 1))
    ELSE s

ToFloat(s) ==
    LET dots == {i \in 1..Len(s) : s[i] = "."}
        d == IF dots = {} THEN Len(s) + 1 ELSE Min(dots)
    IN  [int |-> ToInt(SubSeq(s, 1, d - 1)),
         frac |-> DropTrailingZeros(SubSeq(s, d + 1, Len(s)))]

----------------------------------------------------------------------------
(* The parsed document (BeautifulSoup).  An element is a record: kind says *)
(* which selector of get_book_data it matches,                             *)
(*   "h1"          div.product_main h1                                     *)
(*   "price"       div.product_main p.price_color                          *)
(*   "star"        p.star-rating                                           *)
(*   "avail"       div.product_main p.instock.availability                 *)
(*   "desc_anchor" #product_description                                    *)
(*   "table"       table.table.table-striped                               *)
(*   "p"           any other <p>,                                          *)
(* text is its text content, classes its class tokens and rows its <tr>    *)
(* rows, each with an optional <th> text and an optional <td> text.        *)

Elem(k, t, c, r) == [kind |-> k, text |-> t, classes |-> c, rows |-> r]

\* the elements whose tag is <p>
IsP(e) == e.kind \in {"price", "star", "avail", "p"}

\* soup.select_one(selector): the position of the first match, or None
SelectOne(doc, k) ==
    LET hits == {i \in 1..Len(doc) : doc[i].kind = k}
    IN  IF hits = {} THEN None ELSE Some(Min(hits))

\* node.find_next("p"): the first <p> later in the document, or None
FindNextP(doc, i) ==
    LET hits == {j \in (i + 1)..Len(doc) : IsP(doc[j])}
    IN  IF hits = {} THEN None ELSE Some(Min(hits))

\* text_or_none(node)
TextOrNone(doc, node) ==
    IF IsNone(node) THEN None ELSE Some(Strip(doc[node[1]].text))

\* re.search(r"(?P<cur>[^\d\s])\s*(?P<val>\d+(?:\.\d+)?)", raw): the start
\* positions at which the pattern matches
PriceMatchStarts(s) ==
    {i \in 1..Len(s) :
        /\ ~IsDigit(s[i])
        /\ ~IsSpace(s[i])
        /\ LET j == SkipSpaces(s, i + 1) IN j <= Len(s) /\ IsDigit(s[j])}

\* the text of group val for the match that starts at i
PriceValGroup(s, i) ==
    LET j == SkipSpaces(s, i + 1)
        k == DigitRunEnd(s, j)
        e == IF k + 2 <= Len(s) /\ s[k + 1] = "." /\ IsDigit(s[k + 2])
             THEN DigitRunEnd(s, k + 2)
             ELSE k
    IN  SubSeq(s, j, e)

\* parse_price(raw)
ParsePrice(raw) ==
    IF IsNone(raw) \/ raw[1] = << >>
    THEN [val |-> None, cur |-> None, raw |-> None]
    ELSE LET s == raw[1]
             m == PriceMatchStarts(s)
         IN  IF m = {}
             THEN [val |-> None, cur |-> None, raw |-> raw]
             ELSE [val |-> Some(ToFloat(PriceValGroup(s, Min(m)))),
                   cur |-> Some(s[Min(m)]),
                   raw |-> raw]

\* rating_map
RatingWords == {"One", "Two", "Three", "Four", "Five"}

RatingMap(c) ==
    CASE c = "One" -> 1 [] c = "Two" -> 2 [] c = "Three" -> 3
      [] c = "Four" -> 4 [] c = "Five" -> 5

\* a faulty variant: the level taken to be the second class token
ParseRating_SecondToken(doc, node) ==
    IF IsNone(node) THEN None
    ELSE LET classes == doc[node[1]].classes
         IN  IF Len(classes) >= 2 /\ classes[2] \in RatingWords
             THEN Some(RatingMap(classes[2]))
             ELSE None

\* parse_rating(star_node)
ParseRating(doc, node) ==
    IF IsNone(node) THEN None
    ELSE LET classes == doc[node[1]].classes
             hits == {i \in 1..Len(classes) : classes[i] \in RatingWords}
         IN  IF hits = {} THEN None ELSE Some(RatingMap(classes[Min(hits)]))

\* parse_availability(raw)
ParseAvailability(raw) ==
    IF IsNone(raw) \/ raw[1] = << >>
    THEN [count |-> None, text |-> None]
    ELSE LET s == raw[1]
             m == {i \in 1..Len(s) : IsDigit(s[i])}
         IN  [count |-> IF m = {} THEN None
                        ELSE Some(ToInt(SubSeq(s, Min(m), DigitRunEnd(s, Min(m))))),
              text |-> Some(Strip(s))]

\* a faulty variant: the text only trimmed, its inner whitespace kept
AvailText_OnlyStrip(doc, node) ==
    IF IsNone(node) THEN None ELSE Some(Strip(doc[node[1]].text))

\* avail_text (line 87)
AvailText(doc, node) ==
    IF IsNone(node) THEN None ELSE Some(JoinSplit(doc[node[1]].text))

\* a faulty variant: the first paragraph taken whether or not the anchor is there
Description_NoAnchor(doc) == TextOrNone(doc, FindNextP(doc, 0))

\* description (lines 90-94)
Description(doc) ==
    LET desc_anchor == SelectOne(doc, "desc_anchor")
    IN  IF IsNone(desc_anchor) THEN None
        ELSE TextOrNone(doc, FindNextP(doc, desc_anchor[1]))

\* product_info[key] = val on a dict kept as its items in insertion order
DictSet(d, k, v) ==
    IF \E i \in 1..Len(d) : d[i][1] = k
    THEN [i \in 1..Len(d) |-> IF d[i][1] = k THEN <<k, v>> ELSE d[i]]
    ELSE Append(d, <<k, v>>)

\* the loop over info_table.select("tr") (lines 99-105)
RECURSIVE InfoRows(_, _)
InfoRows(rows, d) ==
    IF rows = << >> THEN d
    ELSE LET tr == Head(rows)
         IN  InfoRows(Tail(rows),
                      IF ~IsNone(tr.th) /\ ~IsNone(tr.td)
                      THEN DictSet(d, Strip(tr.th[1]), Strip(tr.td[1]))
                      ELSE d)

\* product_info (lines 96-105)
ProductInfo(doc) ==
    LET info_table == SelectOne(doc, "table")
    IN  IF IsNone(info_table) THEN << >>
        ELSE InfoRows(doc[info_table[1]].rows, << >>)

\* the dict built from the parsed document (lines 77-118)
ExtractData(doc, url) ==
    LET price == ParsePrice(TextOrNone(doc, SelectOne(doc, "price")))
        avail == ParseAvailability(AvailText(doc, SelectOne(doc, "avail")))
    IN  [url |-> url,
         title |-> TextOrNone(doc, SelectOne(doc, "h1")),
         price |-> price.val,
         currency |-> price.cur,
         price_text |-> price.raw,
         rating |-> ParseRating(doc, SelectOne(doc, "star")),
         availability_count |-> avail.count,
         availability_text |-> avail.text,
         description |-> Description(doc),
         product_info |-> ProductInfo(doc)]

\* a faulty variant: only server errors raise
RaisesForStatus_Only5xx(status) == 500 <= status /\ status < 600

\* response.raise_for_status(): requests raises HTTPError for 4xx and 5xx
RaisesForStatus(status) == 400 <= status /\ status < 600

\* get_book_data(book_url) when the GET answers resp
GetBookData(url, resp) ==
    IF RaisesForStatus(resp.status)
    THEN [raised |-> TRUE, data |-> None]
    ELSE [raised |-> FALSE, data |-> Some(ExtractData(resp.doc, url))]

----------------------------------------------------------------------------
(* URLs.  BASE_URL and the literal "/catalogue/" are single tokens; what   *)
(* follows them is the href, character by character.                       *)

BASE_URL == "http://books.toscrape.com"

\* f"{BASE_URL}/catalogue/{href}" (line 166)
CatalogueUrl(h) == <<BASE_URL, "/catalogue/">> \o h

DotDotSlash == <<".", ".", "/">>

\* str.startswith(prefix)
StartsWith(s, prefix) ==
    Len(s) >= Len(prefix) /\ SubSeq(s, 1, Len(prefix)) = prefix

\* str.replace(old, ""): every non-overlapping occurrence of old, scanning
\* from the left, is removed
RECURSIVE RemoveAll(_, _)
RemoveAll(s, old) ==
    IF s = << >> THEN << >>
    ELSE IF StartsWith(s, old) THEN RemoveAll(SubSeq(s, Len(old) + 1, Len(s)), old)
    ELSE <<s[1]>> \o RemoveAll(Tail(s), old)

\* "if not href" (line 161): a.get("href") is None or ""
NotHref(h) == IF IsNone(h) THEN TRUE ELSE h[1] = << >>

\* lines 164-166: the detail URL built from a non-empty href
BookUrl(h) ==
    CatalogueUrl(IF StartsWith(h, DotDotSlash) THEN RemoveAll(h, DotDotSlash) ELSE h)

----------------------------------------------------------------------------
(* Inputs of a single get_book_data call. *)

HTTP_OK == 200

TitleElem == Elem("h1", <<" ", "A", " ", "L", "\n">>, << >>, << >>)

PriceElem == Elem("price", <<"$", "5", "1", ".", "7">>, << >>, << >>)

StarElem == Elem("star", << >>, <<"star-rating", "Three">>, << >>)

AvailElem == Elem("avail", <<"\n", "I", "n", " ", " ", "2", "2", "\n">>, << >>, << >>)

DescAnchor == Elem("desc_anchor", <<"D">>, << >>, << >>)

DescPara == Elem("p", <<" ", "t", "e", "x", "t">>, << >>, << >>)

TableElem ==
    Elem("table", << >>, << >>,
         << [th |-> Some(<<"U", "P", "C">>), td |-> Some(<<" ", "a", "9">>)],
            [th |-> None, td |-> Some(<<"x">>)],
            [th |-> Some(<<"T", "a", "x">>), td |-> Some(<<"0">>)] >>)

\* the six elements the extractor expects, and the description paragraph
ExpectedElems == {TitleElem, PriceElem, StarElem, AvailElem, DescAnchor, TableElem}

RECURSIVE Perms(_)
Perms(S) ==
    IF S = {} THEN { << >> }
    ELSE UNION { { <<x>> \o q : q \in Perms(S \ {x}) } : x \in S }

\* every document made of some of the seven elements, in every order
LayoutDocs == UNION { Perms(T) : T \in SUBSET (ExpectedElems \cup {DescPara}) }

PriceChars == {"$", "5", "0", ".", " "}

PriceDocs ==
    { <<TitleElem, Elem("price", t, << >>, << >>)>> :
        t \in SeqsUpTo(PriceChars, MaxTextLen) }

AvailChars == {" ", "\n", "x", "2", "0"}

AvailDocs ==
    { <<Elem("avail", t, << >>, << >>), TitleElem>> :
        t \in SeqsUpTo(AvailChars, MaxTextLen) }

ClassTokens == RatingWords \cup {"star-rating", "icon", "one"}

\* p.star-rating matches only an element that has the class star-rating
RatingDocs ==
    { <<Elem("star", << >>, c, << >>)>> :
        c \in { t \in SeqsUpTo(ClassTokens, MaxTokens) :
                  \E i \in 1..Len(t) : t[i] = "star-rating" } }

Docs == LayoutDocs \cup PriceDocs \cup AvailDocs \cup RatingDocs

ErrorStatuses == {204, 300, 404, 500}

\* a response with another status than 200 carries no product markup
Responses ==
    [status : {HTTP_OK}, doc : Docs] \cup [status : ErrorStatuses, doc : { << >> }]

SampleUrl == CatalogueUrl(<<"a">>)

IdleHref == [state |-> "idle", url |-> << >>]

----------------------------------------------------------------------------
(* scrape_books: the site, and the steps of the function. *)

HrefA == Some(<<"a">>)

HrefB == Some(DotDotSlash \o <<"b">>)

NoHref == None

EmptyHref == Some(<< >>)

UrlA == CatalogueUrl(<<"a">>)

UrlB == CatalogueUrl(<<"b">>)

\* the anchors "article.product_pod h3 a" of a catalog page, as their hrefs
CardLists ==
    { << >>, <<HrefA>>, <<NoHref, HrefB>>, <<HrefB, EmptyHref, HrefA>> }

CatalogStatuses == {HTTP_OK, 300, 404}

DetailStatuses == {HTTP_OK, 300, 404}

Sites ==
    [status : [1..MaxPage -> CatalogStatuses],
     cards : [1..MaxPage -> CardLists],
     statusA : DetailStatuses,
     statusB : {HTTP_OK, 404}]

\* the arguments the model calls scrape_books with
PageLimits == {None} \cup { Some(k) : k \in -1..(MaxPage + 1) }

\* the markup of the two detail pages
DocA == <<TitleElem, PriceElem, StarElem, AvailElem, DescAnchor, DescPara, TableElem>>

DocB == <<TitleElem, AvailElem>>

\* session.get(book_url) on site s
DetailResponse(s, url) ==
    LET st == IF url = UrlA THEN s.statusA ELSE s.statusB
    IN  [status |-> st,
         doc |-> IF st # HTTP_OK THEN << >> ELSE IF url = UrlA THEN DocA ELSE DocB]

\* json.dumps(book, ensure_ascii=False) + "\n"
JsonLine(book) == <<book, "\n">>

\* the lines written by lines 178-180
FileLines(books) == [i \in 1..Len(books) |-> JsonLine(books[i])]

\* a faulty variant: the catalog fetch judged as raise_for_status judges a detail fetch
PageEnded_OnlyErrors(status) == status >= 400

\* "resp.status_code != 200" (line 153)
PageEnded(status) == status # HTTP_OK

\* a faulty variant: the limit compared after the increment
LimitReached_OffByOne(n, limit) == ~IsNone(limit) /\ limit[1] = n + 1

\* a faulty variant: ">=" for "=="
LimitReached_AtLeast(n, limit) == ~IsNone(limit) /\ n >= limit[1]

\* "page_num == pages_to_scrape" (line 171)
LimitReached(n, limit) == ~IsNone(limit) /\ limit[1] = n

\* a faulty variant: insert(0, ...) for append
AppendBook_Front(books, book) == <<book>> \o books

\* all_books.append(book_data) (line 169)
AppendBook(books, book) == Append(books, book)

IdleCall ==
    /\ response = [status |-> HTTP_OK, doc |-> << >>]
    /\ book_url = SampleUrl
    /\ outcome = "idle"
    /\ data = None

IdleHrefVars ==
    /\ href = None
    /\ detail_url = IdleHref

IdleCrawl ==
    /\ site = [status |-> [n \in 1..MaxPage |-> 404],
               cards |-> [n \in 1..MaxPage |-> << >>],
               statusA |-> HTTP_OK, statusB |-> HTTP_OK]
    /\ pages_to_scrape = None
    /\ is_save = FALSE
    /\ pc = "idle"
    /\ page_num = 1
    /\ book_cards = << >>
    /\ card = 1
    /\ all_books = << >>
    /\ file = None
    /\ returned = None
    /\ catalog_gets = << >>
    /\ detail_gets = << >>
    /\ exit_by = "none"

\* lines 143-148
Init ==
    /\ site \in Sites
    /\ pages_to_scrape \in PageLimits
    /\ is_save \in BOOLEAN
    /\ pc = "get_page"
    /\ page_num = 1
    /\ book_cards = << >>
    /\ card = 1
    /\ all_books = << >>
    /\ file = None
    /\ returned = None
    /\ catalog_gets = << >>
    /\ detail_gets = << >>
    /\ exit_by = "none"
    /\ IdleCall
    /\ IdleHrefVars

\* lines 150-157: fetch catalog page page_num; leave the loop unless it is 200
GetCatalogPage ==
    /\ pc = "get_page"
    /\ page_num <= MaxPage
    /\ catalog_gets' = Append(catalog_gets, page_num)
    /\ IF PageEnded(site.status[page_num])
       THEN /\ pc' = "save"
            /\ exit_by' = "status"
            /\ UNCHANGED <<book_cards, card>>
       ELSE /\ pc' = "cards"
            /\ book_cards' = site.cards[page_num]
            /\ card' = 1
            /\ UNCHANGED exit_by
    /\ UNCHANGED <<site, pages_to_scrape, is_save, page_num, all_books, file, returned,
                   detail_gets>>
    /\ UNCHANGED <<call_vars, href_vars>>

\* lines 160-162: an anchor without href is passed over
SkipCard ==
    /\ pc = "cards"
    /\ card <= Len(book_cards)
    /\ NotHref(book_cards[card])
    /\ card' = card + 1
    /\ UNCHANGED <<site, pages_to_scrape, is_save, pc, page_num, book_cards, all_books,
                   file, returned, catalog_gets, detail_gets, exit_by>>
    /\ UNCHANGED <<call_vars, href_vars>>

\* lines 164-169: fetch the book's page and append its data; an exception of
\* get_book_data leaves scrape_books
ScrapeCard ==
    /\ pc = "cards"
    /\ card <= Len(book_cards)
    /\ ~NotHref(book_cards[card])
    /\ LET url == BookUrl(book_cards[card][1])
           got == GetBookData(url, DetailResponse(site, url))
       IN  /\ detail_gets' = Append(detail_gets, url)
           /\ IF got.raised
              THEN /\ pc' = "raised"
                   /\ UNCHANGED <<card, all_books>>
              ELSE /\ all_books' = AppendBook(all_books, got.data[1])
                   /\ card' = card + 1
                   /\ UNCHANGED pc
    /\ UNCHANGED <<site, pages_to_scrape, is_save, page_num, book_cards, file, returned,
                   catalog_gets, exit_by>>
    /\ UNCHANGED <<call_vars, href_vars>>

\* lines 171-174: after the last anchor, leave at the limit or go to the next page
NextPage ==
    /\ pc = "cards"
    /\ card > Len(book_cards)
    /\ IF LimitReached(page_num, pages_to_scrape)
       THEN /\ pc' = "save"
            /\ exit_by' = "limit"
            /\ UNCHANGED page_num
       ELSE /\ pc' = "get_page"
            /\ page_num' = page_num + 1
            /\ UNCHANGED exit_by
    /\ UNCHANGED <<site, pages_to_scrape, is_save, book_cards, card, all_books, file,
                   returned, catalog_gets, detail_gets>>
    /\ UNCHANGED <<call_vars, href_vars>>

\* lines 177-182: write the file when asked to, and return all_books
SaveAndReturn ==
    /\ pc = "save"
    /\ file' = IF is_save THEN Some(FileLines(all_books)) ELSE file
    /\ returned' = Some(all_books)
    /\ pc' = "done"
    /\ UNCHANGED <<site, pages_to_scrape, is_save, page_num, book_cards, card, all_books,
                   catalog_gets, detail_gets, exit_by>>
    /\ UNCHANGED <<call_vars, href_vars>>

Next ==
    \/ GetCatalogPage
    \/ SkipCard
    \/ ScrapeCard
    \/ NextPage
    \/ SaveAndReturn

Spec == Init /\ [][Next]_vars

----------------------------------------------------------------------------
(* One call of get_book_data on any of the documents. *)

CallInit ==
    /\ response \in Responses
    /\ book_url = SampleUrl
    /\ outcome = "idle"
    /\ data = None
    /\ IdleCrawl
    /\ IdleHrefVars

\* lines 37-121
CallGetBookData ==
    /\ outcome = "idle"
    /\ LET got == GetBookData(book_url, response)
       IN  /\ outcome' = IF got.raised THEN "raised" ELSE "returned"
           /\ data' = got.data
    /\ UNCHANGED <<response, book_url>>
    /\ UNCHANGED <<crawl_vars, href_vars>>

CallNext == CallGetBookData

CallSpec == CallInit /\ [][CallNext]_vars

----------------------------------------------------------------------------
(* The handling of one anchor's href (lines 160-166), on any href. *)

HrefChars == {".", "/", "x"}

Hrefs == {None} \cup { Some(h) : h \in SeqsUpTo(HrefChars, MaxHrefLen) }

HrefInit ==
    /\ href \in Hrefs
    /\ detail_url = IdleHref
    /\ IdleCrawl
    /\ IdleCall

SkipHref ==
    /\ detail_url.state = "idle"
    /\ NotHref(href)
    /\ detail_url' = [state |-> "skipped", url |-> << >>]
    /\ UNCHANGED href
    /\ UNCHANGED <<crawl_vars, call_vars>>

BuildUrl ==
    /\ detail_url.state = "idle"
    /\ ~NotHref(href)
    /\ detail_url' = [state |-> "built", url |-> BookUrl(href[1])]
    /\ UNCHANGED href
    /\ UNCHANGED <<crawl_vars, call_vars>>

HrefNext ==
    \/ SkipHref
    \/ BuildUrl

HrefSpec == HrefInit /\ [][HrefNext]_vars

----------------------------------------------------------------------------
(* What the claims speak of, stated on the site rather than on the steps   *)
(* of the code.                                                            *)

\* a detail link: an anchor that carries a non-empty href
IsLink(h) == h # None /\ h # Some(<< >>)

\* the URL a href stands for: "../X" is {base}/catalogue/X, any other href
\* is re-rooted unchanged
LinkUrl(h) ==
    CatalogueUrl(IF StartsWith(h, DotDotSlash) THEN SubSeq(h, 4, Len(h)) ELSE h)

\* the detail URLs of catalog page n, in link order
PageLinks(s, n) ==
    LET links == SelectSeq(s.cards[n], IsLink)
    IN  [i \in 1..Len(links) |-> LinkUrl(links[i][1])]

\* the detail URLs of catalog pages 1..n, in page order then link order
RECURSIVE LinksUpTo(_, _)
LinksUpTo(s, n) ==
    IF n <= 0 THEN << >> ELSE LinksUpTo(s, n - 1) \o PageLinks(s, n)

\* the detail URLs of the pages fetched so far that answered 200
RECURSIVE LinksOfGets(_, _)
LinksOfGets(s, gets) ==
    IF gets = << >> THEN << >>
    ELSE LET n == gets[Len(gets)]
         IN  LinksOfGets(s, SubSeq(gets, 1, Len(gets) - 1))
               \o (IF s.status[n] = 200 THEN PageLinks(s, n) ELSE << >>)

\* the record of one detail page
RecordOf(s, url) == ExtractData(DetailResponse(s, url).doc, url)

RecordsOf(s, urls) == [i \in 1..Len(urls) |-> RecordOf(s, urls[i])]

\* the fetch of a detail page fails with an HTTP error status
Fails(s, url) == DetailResponse(s, url).status >= 400

IsPrefix(a, b) == Len(a) <= Len(b) /\ SubSeq(b, 1, Len(a)) = a

\* the catalog pages that do not answer 200
EndedPages(s) == {n \in 1..MaxPage : s.status[n] # 200}

----------------------------------------------------------------------------
(* C1. With a page limit k >= 1, all of catalog pages 1..k answering 200   *)
(* and no detail fetch failing, the crawl requests catalog pages 1, 2, ... *)
(* and never page k+1, leaves the loop by the limit, and returns as many   *)
(* records as pages 1..k hold detail links.                                *)

C1_Pre ==
    /\ ~IsNone(pages_to_scrape)
    /\ pages_to_scrape[1] \in 1..MaxPage
    /\ \A n \in 1..pages_to_scrape[1] : site.status[n] = 200
    /\ LET links == LinksUpTo(site, pages_to_scrape[1])
       IN  \A i \in 1..Len(links) : ~Fails(site, links[i])

\* C1: under C1_Pre only pages 1..k are requested and one record per link is returned
C1_PageLimit ==
    (pc # "idle" /\ C1_Pre) =>
        LET k == pages_to_scrape[1]
        IN  /\ catalog_gets = [i \in 1..Len(catalog_gets) |-> i]
            /\ Len(catalog_gets) <= k
            /\ pc # "raised"
            /\ exit_by # "status"
            /\ pc = "done" =>
                 /\ Len(catalog_gets) = k
                 /\ exit_by = "limit"
                 /\ Len(returned[1]) = Len(LinksUpTo(site, k))

C1_Witness ==
    /\ pc = "done"
    /\ C1_Pre
    /\ pages_to_scrape = Some(2)
    /\ Len(returned[1]) >= 3

----------------------------------------------------------------------------
(* C2 as stated. A detail fetch that answers another status than 200 is    *)
(* the last request of the run: the run has raised, nothing is returned    *)
(* and nothing is written.                                                 *)

C2_Aborted(i) ==
    /\ i = Len(detail_gets)
    /\ pc = "raised"
    /\ returned = None
    /\ file = None

----------------------------------------------------------------------------
(* C3. Once the fetch of catalog page N has answered another status than   *)
(* 200, that fetch is the last request of the run, the loop is left by the *)
(* status exit with no exception, what is returned is the records of the   *)
(* links of pages 1..N-1, and the run ends; so a run without limit ends on *)
(* every site with a page that does not answer 200.  Ending is stated as:  *)
(* every step lowers a natural number, and a run that has not ended can    *)
(* take a step.                                                            *)

C3_Inv ==
    \A i \in 1..Len(catalog_gets) :
        LET N == catalog_gets[i]
        IN  site.status[N] # 200 =>
              /\ i = Len(catalog_gets)
              /\ pc \in {"save", "done"}
              /\ exit_by = "status"
              /\ detail_gets = LinksUpTo(site, N - 1)
              /\ all_books = RecordsOf(site, LinksUpTo(site, N - 1))
              /\ pc = "done" => returned = Some(RecordsOf(site, LinksUpTo(site, N - 1)))

C3_PageEnded ==
    /\ catalog_gets # << >>
    /\ site.status[catalog_gets[Len(catalog_gets)]] # 200

\* a bound on the steps scrape_books has yet to take
C3_StepsLeft ==
    LET longest == CHOOSE n \in 0..100 :
                       /\ \A c \in CardLists : Len(c) <= n
                       /\ \E c \in CardLists : Len(c) = n
    IN  CASE pc \in {"done", "raised", "idle"} -> 0
          [] pc = "save" -> 1
          [] pc = "cards" ->
               (MaxPage + 1 - page_num) * (longest + 4) + (Len(book_cards) - card) + 3
          [] pc = "get_page" ->
               (MaxPage + 1 - page_num) * (longest + 4) + longest + 3

\* a step can be taken: an anchor is left to handle (SkipCard or ScrapeCard,
\* by its href), or one of the other steps is enabled
C3_CanStep ==
    \/ pc = "cards" /\ card <= Len(book_cards)
    \/ ENABLED GetCatalogPage
    \/ ENABLED NextPage
    \/ ENABLED SaveAndReturn

\* the run goes on as long as it has not ended
C3_GoesOn ==
    (\/ C3_PageEnded
     \/ pc # "idle" /\ pages_to_scrape = None /\ EndedPages(site) # {})
        => (pc \in {"done", "raised"} \/ C3_CanStep)

\* C3: a catalog response other than 200 ends the run with the records so far
C3_CatalogEnd ==
    /\ []C3_Inv
    /\ []C3_GoesOn
    /\ [][C3_StepsLeft' < C3_StepsLeft]_vars

C3_Witness ==
    /\ pc = "done"
    /\ pages_to_scrape = None
    /\ exit_by = "status"
    /\ catalog_gets = <<1, 2>>
    /\ Len(returned[1]) >= 2

----------------------------------------------------------------------------
(* C4. all_books changes only by one record appended at its end; detail    *)
(* pages are requested in catalog page order and link order; the i-th      *)
(* record, also of the list returned, is that of the i-th detail request.  *)

C4_Grows ==
    \/ all_books' = all_books
    \/ /\ Len(all_books') = Len(all_books) + 1
       /\ SubSeq(all_books', 1, Len(all_books)) = all_books

C4_Inv ==
    /\ IsPrefix(detail_gets, LinksOfGets(site, catalog_gets))
    /\ pc \in {"get_page", "save", "done"} => detail_gets = LinksOfGets(site, catalog_gets)
    /\ catalog_gets = [i \in 1..Len(catalog_gets) |-> i]
    /\ Len(all_books) <= Len(detail_gets)
    /\ \A i \in 1..Len(all_books) : all_books[i] = RecordOf(site, detail_gets[i])
    /\ pc = "done" =>
         /\ Len(returned[1]) = Len(detail_gets)
         /\ \A i \in 1..Len(detail_gets) : returned[1][i] = RecordOf(site, detail_gets[i])

\* C4: records are only appended, in the order of the detail requests
C4_Order == []C4_Inv /\ [][C4_Grows]_vars

C4_Witness ==
    /\ pc = "done"
    /\ Len(returned[1]) >= 4
    /\ returned[1][1].url # returned[1][2].url

----------------------------------------------------------------------------
(* C10. With a page limit of 0 or below, catalog page 1 is requested and   *)
(* its links are visited before the limit is first compared, the limit     *)
(* exit is never taken, and the run ends as a run without limit ends on    *)
(* the same site: at the first page that does not answer 200, returning    *)
(* the records of the pages before it.                                     *)

C10_NoLimit(limit) == IF IsNone(limit) THEN TRUE ELSE limit[1] <= 0

\* C10: a limit of 0 or below never ends the run; it ends as without limit
C10_NonPositiveLimit ==
    (pc # "idle" /\ C10_NoLimit(pages_to_scrape)) =>
        /\ exit_by # "limit"
        /\ (pc = "cards" /\ card > Len(book_cards)) =>
              /\ catalog_gets[1] = 1
              /\ IsPrefix(PageLinks(site, 1), detail_gets)
        /\ pc = "done" =>
              /\ EndedPages(site) # {}
              /\ LET N == Min(EndedPages(site))
                 IN  /\ catalog_gets = [i \in 1..N |-> i]
                     /\ returned = Some(RecordsOf(site, LinksUpTo(site, N - 1)))

C10_Witness ==
    /\ pc = "done"
    /\ pages_to_scrape = Some(0)
    /\ catalog_gets = <<1, 2>>
    /\ Len(returned[1]) >= 1

----------------------------------------------------------------------------
(* What the claims about one get_book_data call speak of.                  *)

Present(doc, k) == \E i \in 1..Len(doc) : doc[i].kind = k

\* the element the extractor reads for kind k: the first one of the document
ElemOf(doc, k) == doc[Min({i \in 1..Len(doc) : doc[i].kind = k})]

ExpectedKinds == {"h1", "price", "star", "avail", "desc_anchor", "table"}

\* the fields of the record that come from the element of kind k
FieldsOf(k) ==
    CASE k = "h1" -> {"title"}
      [] k = "price" -> {"price", "currency", "price_text"}
      [] k = "star" -> {"rating"}
      [] k = "avail" -> {"availability_count", "availability_text"}
      [] k = "desc_anchor" -> {"description"}
      [] k = "table" -> {"product_info"}

FieldKeys ==
    {"url", "title", "price", "currency", "price_text", "rating",
     "availability_count", "availability_text", "description", "product_info"}

\* the document without the elements of M
Without(doc, M) == SelectSeq(doc, LAMBDA e : e \notin M)

\* a document in which none of the six expected elements is missing
IsFull(doc) ==
    /\ \A k \in ExpectedKinds : Present(doc, k)
    /\ \A i \in 1..Len(doc) : doc[i] \in ExpectedElems \cup {DescPara}

\* the words of a text: its maximal runs of non-whitespace characters
RECURSIVE WordsOf(_, _, _)
WordsOf(s, word, words) ==
    LET closed == IF word = << >> THEN words ELSE Append(words, word)
    IN  IF s = << >> THEN closed
        ELSE IF IsSpace(s[1]) THEN WordsOf(Tail(s), << >>, closed)
        ELSE WordsOf(Tail(s), Append(word, s[1]), words)

RECURSIVE JoinWords(_)
JoinWords(ws) ==
    IF ws = << >> THEN << >>
    ELSE IF Len(ws) = 1 THEN ws[1]
    ELSE ws[1] \o <<" ">> \o JoinWords(Tail(ws))

\* a text with every whitespace run collapsed to one space, and trimmed
Collapsed(s) == JoinWords(WordsOf(s, << >>, << >>))

\* the integer value of the first contiguous digit run of a text, or None
FirstNumber(s) ==
    LET ds == {i \in 1..Len(s) : IsDigit(s[i])}
    IN  IF ds = {} THEN None
        ELSE LET a == Min(ds)
                 b == CHOOSE j \in a..Len(s) :
                          /\ \A k \in a..j : IsDigit(s[k])
                          /\ j = Len(s) \/ ~IsDigit(s[j + 1])
             IN  Some(ToInt(SubSeq(s, a, b)))

\* a decimal number: digits, or digits "." digits
IsDecimal(t) ==
    /\ t # << >>
    /\ \A i \in 1..Len(t) : IsDigit(t[i]) \/ t[i] = "."
    /\ Cardinality({i \in 1..Len(t) : t[i] = "."}) <= 1
    /\ IsDigit(t[1])
    /\ IsDigit(t[Len(t)])

\* a price text begins with a currency marker
HasMarker(t) == t # << >> /\ ~IsDigit(t[1]) /\ ~IsSpace(t[1])

\* what follows the optional marker and the optional whitespace
AfterMarker(t) == LStrip(IF HasMarker(t) THEN Tail(t) ELSE t)

\* optional marker, optional whitespace, decimal number
IsPriceForm(t) == IsDecimal(AfterMarker(t))

\* the integer a rating word stands for
WordNumber(w) == CHOOSE n \in 1..5 : <<"One", "Two", "Three", "Four", "Five">>[n] = w

----------------------------------------------------------------------------
(* C5 as stated. For a fetched document with none of the six expected      *)
(* elements missing and any set M of them taken out, the extraction of the *)
(* document without M returns a record that has every key and the source   *)
(* URL, None (the empty mapping) in the fields of the elements of M, and   *)
(* in the fields of the other elements the values of the full document.    *)

C5_Partial(full, M, same) ==
    LET rec == ExtractData(Without(full, M), book_url)
    IN  /\ DOMAIN rec = FieldKeys
        /\ rec.url = book_url
        /\ \A e \in ExpectedElems :
             \A f \in FieldsOf(e.kind) :
                 IF e \in M THEN rec[f] = None
                 ELSE f \in same => rec[f] = data[1][f]

C5_Description(doc, rec) ==
    IF ~Present(doc, "desc_anchor") THEN rec.description = None
    ELSE LET a == Min({i \in 1..Len(doc) : doc[i].kind = "desc_anchor"})
             ps == {j \in 1..Len(doc) : j > a /\ IsP(doc[j])}
         IN  rec.description = IF ps = {} THEN None ELSE Some(Strip(doc[Min(ps)].text))

----------------------------------------------------------------------------
(* C6 as stated. A price text of the form optional marker, optional        *)
(* whitespace, decimal number gives price the value of the whole number    *)
(* and price_text the text, and currency the marker when there is one; a   *)
(* price text of another form gives (None, None, text); no price element   *)
(* gives (None, None, None).  A price element with an empty text is left   *)
(* out: the claim does not say whether that is a present price text.       *)

C6_PriceAsStated ==
    outcome = "returned" =>
        LET doc == response.doc
            rec == data[1]
        IN  IF ~Present(doc, "price")
            THEN rec.price = None /\ rec.currency = None /\ rec.price_text = None
            ELSE LET t == Strip(ElemOf(doc, "price").text)
                 IN  IF t = << >> THEN TRUE
                     ELSE IF IsPriceForm(t)
                     THEN /\ rec.price = Some(ToFloat(AfterMarker(t)))
                          /\ rec.price_text = Some(t)
                          /\ HasMarker(t) => rec.currency = Some(t[1])
                     ELSE /\ rec.price = None
                          /\ rec.currency = None
                          /\ rec.price_text = Some(t)

----------------------------------------------------------------------------
(* C7. When the class tokens of the rating element hold exactly one of the *)
(* words One..Five, at whatever position, rating is the integer of that    *)
(* word; without the element, or with no such word among its tokens,       *)
(* rating is None; rating is never anything but None or one of 1..5.       *)

C7_Rating ==
    outcome = "returned" =>
        LET doc == response.doc
            r == data[1].rating
        IN  /\ r = None \/ r[1] \in 1..5
            /\ IF ~Present(doc, "star") THEN r = None
               ELSE LET c == ElemOf(doc, "star").classes
                        ws == {c[i] : i \in 1..Len(c)} \cap RatingWords
                    IN  /\ ws = {} => r = None
                        /\ Cardinality(ws) = 1 => r = Some(WordNumber(CHOOSE w \in ws : TRUE))

C7_Witness ==
    /\ outcome = "returned"
    /\ Present(response.doc, "star")
    /\ ElemOf(response.doc, "star").classes = <<"icon", "star-rating", "Four">>
    /\ data[1].rating = Some(4)

----------------------------------------------------------------------------
(* C8 as stated. With the availability element present, availability_text  *)
(* is its text with whitespace runs collapsed and trimmed and              *)
(* availability_count the value of the first digit run of that text (None  *)
(* without digits); availability_text is None only without the element.    *)

C8_AvailAsStated ==
    outcome = "returned" =>
        LET doc == response.doc
            rec == data[1]
        IN  IF Present(doc, "avail")
            THEN LET t == Collapsed(ElemOf(doc, "avail").text)
                 IN  /\ rec.availability_text = Some(t)
                     /\ rec.availability_count = FirstNumber(t)
            ELSE rec.availability_text = None

(* C8 as amended. With the availability element present and its text not   *)
(* empty or all whitespace, as stated; availability_text is None, and      *)
(* availability_count with it, exactly when the element is absent or its   *)
(* text is empty or all whitespace.                                        *)

C8_Availability ==
    outcome = "returned" =>
        LET doc == response.doc
            rec == data[1]
            t == IF Present(doc, "avail") THEN Collapsed(ElemOf(doc, "avail").text)
                 ELSE << >>
        IN  IF t # << >>
            THEN /\ rec.availability_text = Some(t)
                 /\ rec.availability_count = FirstNumber(t)
            ELSE /\ rec.availability_text = None
                 /\ rec.availability_count = None

C8_Witness ==
    /\ outcome = "returned"
    /\ Present(response.doc, "avail")
    /\ ElemOf(response.doc, "avail").text = <<"x", "\n", " ", "2", "0">>
    /\ data[1].availability_text = Some(<<"x", " ", "2", "0">>)
    /\ data[1].availability_count = Some(20)

----------------------------------------------------------------------------
(* C9 as stated. The detail URL built from a href "../X" is                *)
(* {base}/catalogue/X, X kept character for character; from any other     *)
(* href it is {base}/catalogue/href.                                       *)

C9_UrlAsStated ==
    detail_url.state = "built" => detail_url.url = LinkUrl(href[1])

====
